---- MODULE Spec2Model ----
(***************************************************************************)
(* FlatTreeHelper (src/src/FlatTreeHelper.ts): a tree kept as one flat,    *)
(* ordered list of nodes {id, parentId?} with two derived caches, an       *)
(* id -> node map and an id -> direct-children map, rebuilt from the list  *)
(* by buildCache after every mutation.                                     *)
(*                                                                         *)
(* Ids are non-empty strings.  NoId stands for a falsy parentId / before /  *)
(* after (undefined): the code tests these with JavaScript truthiness      *)
(* (`_n.parentId ? ... : false`, `!t.parentId`, `opt.before && opt.after`).*)
(* Array indices are JavaScript's (0-based); list[i + 1] is _list[i].      *)
(***************************************************************************)
EXTENDS Integers, Sequences, FiniteSets

\* ---- bounds ----
\* longest list the constructor is given and add may grow the list to
MaxLen == 3

NoId == ""
\* the ids of the nodes of the trees that are walked
Ids == {"a", "b", "c", "d"}
\* the ids the lists with repeated ids and the arguments of add and move use
CallIds == {"a", "b", "c"}

\* ITreeNode: { id: string; parentId?: string }
ITreeNode == [id : Ids, parentId : {NoId} \cup Ids]
CallNode == [id : CallIds, parentId : {NoId} \cup CallIds]

VARIABLES
    list,           \* _list: T[]
    nodeCache,      \* _nodeCache: Map<string, T>     (a function on its keys)
    childrenCache,  \* _childrenCache: Map<string, T[]>
    ret,            \* the last call: its name, its error, what it returned
    call            \* the caller's record of that call: arguments, list before

vars == <<list, nodeCache, childrenCache, ret, call>>

\* ---- sequences as JavaScript arrays ----
RECURSIVE SeqsUpTo(_, _)
SeqsUpTo(S, n) ==
    IF n = 0 THEN {<<>>}
    ELSE LET shorter == SeqsUpTo(S, n - 1)
         IN  shorter \cup {Append(s, x) : s \in {t \in shorter : Len(t) = n - 1}, x \in S}

RECURSIVE Flatten(_)
Flatten(ss) == IF ss = <<>> THEN <<>> ELSE Head(ss) \o Flatten(Tail(ss))

IdsOf(l) == {l[i].id : i \in 1..Len(l)}

UniqueIds(l) == \A i, j \in 1..Len(l) : l[i].id = l[j].id => i = j

\* Array.prototype.findIndex with the predicate t => t.id === id; -1 when absent
FindIndex(l, id) ==
    IF \E i \in 1..Len(l) : l[i].id = id
    THEN (CHOOSE i \in 1..Len(l) : l[i].id = id /\ \A j \in 1..(i - 1) : l[j].id # id) - 1
    ELSE -1

\* l.splice(start, 1): start is a valid index wherever the code calls it
SpliceOut(l, start) ==
    [i \in 1..(Len(l) - 1) |-> IF i <= start THEN l[i] ELSE l[i + 1]]

\* l.splice(start, 0, item): a negative start counts from the end, and the
\* start is clamped to 0..length
SpliceIn(l, start, item) ==
    LET len == Len(l)
        rel == IF start < 0
               THEN (IF len + start < 0 THEN 0 ELSE len + start)
               ELSE (IF start > len THEN len ELSE start)
    IN  [i \in 1..(len + 1) |->
            IF i <= rel THEN l[i] ELSE IF i = rel + 1 THEN item ELSE l[i - 1]]

\* ---- buildCache ----
\* this._list.forEach(n => this._nodeCache.set(n.id, n)): the last write wins
BuildNodeCache(l) ==
    [k \in IdsOf(l) |->
        l[CHOOSE i \in 1..Len(l) : l[i].id = k /\ \A j \in (i + 1)..Len(l) : l[j].id # k]]

\* _n => (_n.parentId ? _n.parentId === n.id : false)
IsChildOf(n, id) == n.parentId # NoId /\ n.parentId = id

ChildrenOf(l, id) == SelectSeq(l, LAMBDA n : IsChildOf(n, id))

BuildChildrenCache(l) == [k \in IdsOf(l) |-> ChildrenOf(l, k)]

\* faulty variant: the children index is left as it was
RebuiltStaleChildren(l) ==
    /\ list' = l
    /\ nodeCache' = BuildNodeCache(l)
    /\ childrenCache' = childrenCache

\* faulty variant: the children index is not cleared and the children found are
\* put behind the ones an id already has
RebuiltAppending(l) ==
    /\ list' = l
    /\ nodeCache' = BuildNodeCache(l)
    /\ childrenCache' = [k \in IdsOf(l) |->
                            (IF k \in DOMAIN childrenCache THEN childrenCache[k] ELSE <<>>)
                                \o ChildrenOf(l, k)]

\* faulty variant: an id that has an entry in the id index keeps that entry
RebuiltStaleNodes(l) ==
    /\ list' = l
    /\ nodeCache' = [k \in IdsOf(l) |->
                        IF k \in DOMAIN nodeCache THEN nodeCache[k] ELSE BuildNodeCache(l)[k]]
    /\ childrenCache' = BuildChildrenCache(l)

\* buildCache() after the list became l
Rebuilt(l) ==
    /\ list' = l
    /\ nodeCache' = BuildNodeCache(l)
    /\ childrenCache' = BuildChildrenCache(l)

Returned(op, err, val) == ret' = [op |-> op, err |-> err, val |-> val]

\* a call that threw before it changed anything
Thrown(op, err) ==
    /\ Returned(op, err, <<>>)
    /\ UNCHANGED <<list, nodeCache, childrenCache>>

\* ---- walk ----
\* The visitor is modelled by the id at which it calls done(): doneAt, or
\* NoId for a visitor that never does.  The result is the sequence of the
\* visitor's invocations, each with the node, the trace and isLeaf it is given.
\* faulty variant: the children are walked before the node itself is handed over
RECURSIVE WalkFromPostOrder(_, _, _)
WalkFromPostOrder(id, lastTrace, doneAt) ==
    IF id \notin DOMAIN nodeCache THEN <<>>
    ELSE LET currentTreeNode == nodeCache[id]
             trace == Append(lastTrace, currentTreeNode)
             isLeaf == id \notin DOMAIN childrenCache \/ Len(childrenCache[id]) = 0
             tap == [node |-> currentTreeNode, trace |-> trace, isLeaf |-> isLeaf]
         IN  IF isLeaf THEN <<tap>>
             ELSE Flatten([k \in 1..Len(childrenCache[id]) |->
                     WalkFromPostOrder(childrenCache[id][k].id, trace, doneAt)]) \o <<tap>>

RECURSIVE WalkFrom(_, _, _)
WalkFrom(id, lastTrace, doneAt) ==
    IF id \notin DOMAIN nodeCache THEN <<>>
    ELSE LET currentTreeNode == nodeCache[id]
             trace == Append(lastTrace, currentTreeNode)
             isLeaf == id \notin DOMAIN childrenCache \/ Len(childrenCache[id]) = 0
             tap == [node |-> currentTreeNode, trace |-> trace, isLeaf |-> isLeaf]
             shouldStop == (id = doneAt)
         IN  IF shouldStop \/ isLeaf THEN <<tap>>
             ELSE <<tap>> \o Flatten([k \in 1..Len(childrenCache[id]) |->
                                 WalkFrom(childrenCache[id][k].id, trace, doneAt)])

\* The recursion of _walk never ends (it overflows the call stack) iff it gets
\* deeper than the number of ids there are.
RECURSIVE Overflows(_, _, _)
Overflows(id, depth, doneAt) ==
    /\ id \in DOMAIN nodeCache
    /\ \/ depth > Cardinality(DOMAIN nodeCache)
       \/ /\ id # doneAt
          /\ id \in DOMAIN childrenCache
          /\ \E k \in 1..Len(childrenCache[id]) :
                Overflows(childrenCache[id][k].id, depth + 1, doneAt)

WalkOverflows(startId, doneAt) == Overflows(startId, 1, doneAt)

WalkTaps(startId, doneAt) ==
    IF startId \notin DOMAIN nodeCache THEN <<>> ELSE WalkFrom(startId, <<>>, doneAt)

Walk(startId, doneAt) ==
    IF WalkOverflows(startId, doneAt)
    THEN Thrown("walk", "stack overflow")
    ELSE /\ Returned("walk", "none", WalkTaps(startId, doneAt))
         /\ UNCHANGED <<list, nodeCache, childrenCache>>

\* ---- getAllTraceList ----
\* faulty variant: the trace of every visit is recorded, leaf or not
LeafTracesOfAll(taps) == [k \in 1..Len(taps) |-> taps[k].trace]

LeafTraces(taps) ==
    LET leaves == SelectSeq(taps, LAMBDA t : t.isLeaf)
    IN  [k \in 1..Len(leaves) |-> leaves[k].trace]

GetAllTraceList(startId) ==
    IF WalkOverflows(startId, NoId)
    THEN Thrown("getAllTraceList", "stack overflow")
    ELSE /\ Returned("getAllTraceList", "none", LeafTraces(WalkTaps(startId, NoId)))
         /\ UNCHANGED <<list, nodeCache, childrenCache>>

\* ---- getFlatChildren ----
GetFlatChildren(id) == IF id \in DOMAIN childrenCache THEN childrenCache[id] ELSE <<>>

\* ---- getById ----
\* T | undefined, written as the sequence of the node, empty for undefined
GetById(id) == IF id \in DOMAIN nodeCache THEN <<nodeCache[id]>> ELSE <<>>

\* ---- isLeaf ----
\* faulty variant: an id without an entry in the children index is no leaf
IsLeafOfKnown(id) == id \in DOMAIN childrenCache /\ Len(childrenCache[id]) = 0

IsLeaf(id) == IF id \notin DOMAIN childrenCache THEN TRUE ELSE Len(childrenCache[id]) = 0

\* ---- findAllRoot ----
\* faulty variant: a node whose parent is not in the index counts as a root
FindAllRootUnresolved == SelectSeq(list, LAMBDA t : t.parentId \notin DOMAIN nodeCache)

\* this._list.filter(t => !t.parentId)
FindAllRootList == SelectSeq(list, LAMBDA t : t.parentId = NoId)

\* ---- findAllParent ----
\* the get of line 138 / 142: the node with the id, none for a falsy parentId
\* or an id without an entry
Resolves(id) == id # NoId /\ id \in DOMAIN nodeCache

\* faulty variant: the nodes are pushed, so the chain comes out start first
RECURSIVE ParentListPushed(_)
ParentListPushed(id) ==
    IF ~Resolves(id) THEN <<>>
    ELSE <<nodeCache[id]>> \o ParentListPushed(nodeCache[id].parentId)

\* parentList after the while loop that starts at the node with the id: every
\* node on the way up is unshifted, so the list starts with the topmost one
RECURSIVE ParentListFrom(_)
ParentListFrom(id) ==
    IF ~Resolves(id) THEN <<>>
    ELSE ParentListFrom(nodeCache[id].parentId) \o <<nodeCache[id]>>

\* the while loop never ends iff it is still at a node after more steps than
\* there are ids
RECURSIVE ChainLoops(_, _)
ChainLoops(id, steps) ==
    /\ Resolves(id)
    /\ \/ steps > Cardinality(DOMAIN nodeCache)
       \/ ChainLoops(nodeCache[id].parentId, steps + 1)

FindAllParentLoops(startId) == ChainLoops(startId, 1)

\* parentList.pop() of an empty array leaves it empty
FindAllParentList(startId) ==
    LET parentList == ParentListFrom(startId)
    IN  IF parentList = <<>> THEN <<>> ELSE SubSeq(parentList, 1, Len(parentList) - 1)

Unchanged == UNCHANGED <<list, nodeCache, childrenCache>>

FindAllParent(startId) ==
    IF FindAllParentLoops(startId)
    THEN Thrown("findAllParent", "never returns")
    ELSE Returned("findAllParent", "none", FindAllParentList(startId)) /\ Unchanged

FindAllRoot == Returned("findAllRoot", "none", FindAllRootList) /\ Unchanged

\* ---- remove ----
\* faulty variant: only the node and its direct children are marked
RemoveSetShallow(startId) ==
    IF startId \notin DOMAIN nodeCache THEN {}
    ELSE {startId} \cup {GetFlatChildren(startId)[k].id : k \in 1..Len(GetFlatChildren(startId))}

RemoveSet(startId) ==
    LET taps == WalkTaps(startId, NoId) IN {taps[k].node.id : k \in 1..Len(taps)}

RemoveList(startId) == SelectSeq(list, LAMBDA t : t.id \notin RemoveSet(startId))

Remove(startId) ==
    IF WalkOverflows(startId, NoId)
    THEN Thrown("remove", "stack overflow")
    ELSE /\ Rebuilt(RemoveList(startId))
         /\ Returned("remove", "none", <<>>)

\* ---- add ----
\* faulty variant: only the first supplied node is looked up
AddCollidesFirstOnly(nodes) == nodes[1].id \in DOMAIN nodeCache

AddCollides(nodes) == \E i \in 1..Len(nodes) : nodes[i].id \in DOMAIN nodeCache

\* faulty variant: the supplied nodes are put in front
Unshifted(l, nodes) == nodes \o l

\* l after l.push(...nodes)
Pushed(l, nodes) == l \o nodes

Add(nodes) ==
    IF AddCollides(nodes)
    THEN Thrown("add", "id has existed")
    ELSE /\ Rebuilt(Pushed(list, nodes))
         /\ Returned("add", "none", <<>>)

\* ---- move ----
\* faulty variant: the index of `before` is looked up before the target is taken out
MoveListStaleIndex(id, parentId, before, after) ==
    LET targetIndex == FindIndex(list, id)
        newTreeNode == [list[targetIndex + 1] EXCEPT !.parentId = parentId]
        replaced    == [list EXCEPT ![targetIndex + 1] = newTreeNode]
    IN  IF before # NoId
        THEN SpliceIn(SpliceOut(replaced, targetIndex), FindIndex(replaced, before), newTreeNode)
        ELSE IF after # NoId
        THEN SpliceIn(SpliceOut(replaced, targetIndex), FindIndex(replaced, after) + 1, newTreeNode)
        ELSE replaced

\* faulty variant: the re-parented node is always taken out and pushed to the end
MoveListToEnd(id, parentId, before, after) ==
    LET targetIndex == FindIndex(list, id)
        newTreeNode == [list[targetIndex + 1] EXCEPT !.parentId = parentId]
    IN  Append(SpliceOut(list, targetIndex), newTreeNode)

\* faulty variant: with a hint that no node of the list holds the node that was
\* taken out is not put back
MoveListDropsAtUnknownHint(id, parentId, before, after) ==
    LET targetIndex == FindIndex(list, id)
        newTreeNode == [list[targetIndex + 1] EXCEPT !.parentId = parentId]
        replaced    == [list EXCEPT ![targetIndex + 1] = newTreeNode]
        cut         == SpliceOut(replaced, targetIndex)
    IN  IF before # NoId
        THEN (IF FindIndex(cut, before) < 0 THEN cut
              ELSE SpliceIn(cut, FindIndex(cut, before), newTreeNode))
        ELSE IF after # NoId
        THEN (IF FindIndex(cut, after) < 0 THEN cut
              ELSE SpliceIn(cut, FindIndex(cut, after) + 1, newTreeNode))
        ELSE replaced

MoveList(id, parentId, before, after) ==
    LET targetIndex == FindIndex(list, id)
        newTreeNode == [list[targetIndex + 1] EXCEPT !.parentId = parentId]
        replaced    == [list EXCEPT ![targetIndex + 1] = newTreeNode]
        afterBefore ==
            IF before # NoId
            THEN LET cut == SpliceOut(replaced, targetIndex)
                 IN  SpliceIn(cut, FindIndex(cut, before), newTreeNode)
            ELSE replaced
    IN  IF after # NoId
        THEN LET cut == SpliceOut(afterBefore, targetIndex)
             IN  SpliceIn(cut, FindIndex(cut, after) + 1, newTreeNode)
        ELSE afterBefore

\* faulty variant: the hints are validated after the node was replaced in the list
MoveReplacesFirst(id, parentId, before, after) ==
    IF FindIndex(list, id) < 0
    THEN Thrown("move", "id not found")
    ELSE IF before # NoId /\ after # NoId
    THEN /\ list' = [list EXCEPT ![FindIndex(list, id) + 1].parentId = parentId]
         /\ UNCHANGED <<nodeCache, childrenCache>>
         /\ Returned("move", "before and after", <<>>)
    ELSE /\ Rebuilt(MoveList(id, parentId, before, after))
         /\ Returned("move", "none", <<>>)

\* faulty variant: a parent that is the node itself or below it is rejected
MoveRejectsCycle(id, parentId, before, after) ==
    IF before # NoId /\ after # NoId
    THEN Thrown("move", "before and after")
    ELSE IF FindIndex(list, id) < 0
    THEN Thrown("move", "id not found")
    ELSE IF \/ parentId = id
            \/ /\ ~FindAllParentLoops(parentId)
               /\ \E i \in 1..Len(FindAllParentList(parentId)) :
                     FindAllParentList(parentId)[i].id = id
    THEN Thrown("move", "cycle")
    ELSE /\ Rebuilt(MoveList(id, parentId, before, after))
         /\ Returned("move", "none", <<>>)

Move(id, parentId, before, after) ==
    IF before # NoId /\ after # NoId
    THEN Thrown("move", "before and after")
    ELSE IF FindIndex(list, id) < 0
    THEN Thrown("move", "id not found")
    ELSE /\ Rebuilt(MoveList(id, parentId, before, after))
         /\ Returned("move", "none", <<>>)

\* ---- constructor ----
NoCall == [op |-> "new"]

Constructed(l) ==
    /\ list = l
    /\ nodeCache = BuildNodeCache(l)
    /\ childrenCache = BuildChildrenCache(l)
    /\ ret = [op |-> "new", err |-> "none", val |-> <<>>]
    /\ call = NoCall

\* what the caller notes of a call: its arguments and the list it found
Noted(op, args) == call' = [op |-> op, old |-> list, args |-> args]

\* ---- the caller ----
\* A helper is constructed from a list and one call is made on it.  The
\* constructor takes any list, so the lists a sequence of calls can reach are
\* themselves lists a helper starts from: the call is made from every store
\* within the bound.
CallLists == SeqsUpTo(CallNode, MaxLen)
Batches == CallLists \ {<<>>}
MaybeCallIds == {NoId} \cup CallIds
MaybeIds == {NoId} \cup Ids
\* opt: {}, {before}, {after}, and {before, after} (rejected whatever the two are)
MoveOpts(ids) ==
    {o \in [before : {NoId} \cup ids, after : {NoId} \cup ids] :
        o.before = NoId \/ o.after = NoId \/ o.before = o.after}

MoveCall(ids) ==
    \E id \in ids, parentId \in {NoId} \cup ids, opt \in MoveOpts(ids) :
        /\ Move(id, parentId, opt.before, opt.after)
        /\ Noted("move", [id |-> id, parentId |-> parentId, opt |-> opt])

Init == \E l \in CallLists : Constructed(l)

OneAdd ==
    /\ call = NoCall
    /\ \E nodes \in Batches :
        /\ Len(list) + Len(nodes) <= MaxLen
        /\ Add(nodes)
        /\ Noted("add", [nodes |-> nodes])

OneRemove ==
    /\ call = NoCall
    /\ \E startId \in Ids :
        /\ Remove(startId)
        /\ Noted("remove", [startId |-> startId])

OneMove ==
    /\ call = NoCall
    /\ MoveCall(CallIds)

OneWalk ==
    /\ call = NoCall
    /\ \E startId \in Ids, doneAt \in MaybeIds :
        /\ Walk(startId, doneAt)
        /\ Noted("walk", [startId |-> startId, doneAt |-> doneAt])

OneGetAllTraceList ==
    /\ call = NoCall
    /\ \E startId \in Ids :
        /\ GetAllTraceList(startId)
        /\ Noted("getAllTraceList", [startId |-> startId])

Next == OneAdd \/ OneRemove \/ OneMove \/ OneWalk \/ OneGetAllTraceList

Spec == Init /\ [][Next]_vars

\* ---- the caller of a helper constructed from a tree ----
\* the id reached from `id` by following parentId n times (ids unique)
RECURSIVE Ancestor(_, _, _)
Ancestor(l, id, n) ==
    IF n = 0 \/ id \notin IdsOf(l) THEN id
    ELSE Ancestor(l, l[FindIndex(l, id) + 1].parentId, n - 1)

\* no node is its own ancestor: every parent chain leaves the list
Acyclic(l) == \A id \in IdsOf(l) : Ancestor(l, id, Len(l)) \notin IdsOf(l)

\* the lists of at most n nodes with pairwise distinct ids
RECURSIVE UniqueLists(_)
UniqueLists(n) ==
    IF n = 0 THEN {<<>>}
    ELSE LET shorter == UniqueLists(n - 1)
         IN  shorter \cup
             UNION {{Append(s, x) : x \in {y \in ITreeNode : y.id \notin IdsOf(s)}} :
                        s \in {t \in shorter : Len(t) = n - 1}}

TreeLists == {l \in UniqueLists(Cardinality(Ids)) : Acyclic(l)}

InitTree == \E l \in TreeLists : Constructed(l)

NextTree == OneRemove \/ OneWalk \/ OneGetAllTraceList

SpecTree == InitTree /\ [][NextTree]_vars

\* ---- the caller that moves a node of a tree ----
OneTreeMove ==
    /\ call = NoCall
    /\ MoveCall(Ids)

SpecMove == InitTree /\ [][OneTreeMove]_vars

\* ---- the caller that adds a node to a tree or gives a node another parent ----
OneTreeAdd ==
    /\ call = NoCall
    /\ \E n \in ITreeNode :
        /\ Add(<<n>>)
        /\ Noted("add", [nodes |-> <<n>>])

OneTreeReparent ==
    /\ call = NoCall
    /\ \E id \in Ids, parentId \in MaybeIds :
        /\ Move(id, parentId, NoId, NoId)
        /\ Noted("move", [id |-> id, parentId |-> parentId,
                          opt |-> [before |-> NoId, after |-> NoId]])

SpecReparent == InitTree /\ [][OneTreeAdd \/ OneTreeReparent]_vars

\* ---- walk with a visitor that calls add, remove or move on the helper ----
\* The recursion of _walk is kept as the stack of the calls _walk(id, lastTrace)
\* still to be made; one step is one call of _walk up to the forEach over the
\* children it found.

\* the call the visitor makes: add([node]), remove(id) or move(id, parentId)
Mutations ==
    {m \in [op : {"add", "remove", "move"}, id : CallIds, parentId : MaybeCallIds] :
        m.op = "remove" => m.parentId = NoId}

\* what that call throws and the list it leaves
Reentered(m) ==
    IF m.op = "add"
    THEN LET nodes == <<[id |-> m.id, parentId |-> m.parentId]>>
         IN  IF AddCollides(nodes) THEN [err |-> "id has existed", list |-> list]
             ELSE [err |-> "none", list |-> Pushed(list, nodes)]
    ELSE IF m.op = "remove"
    THEN IF WalkOverflows(m.id, NoId) THEN [err |-> "stack overflow", list |-> list]
         ELSE [err |-> "none", list |-> RemoveList(m.id)]
    ELSE IF FindIndex(list, m.id) < 0 THEN [err |-> "id not found", list |-> list]
         ELSE [err |-> "none", list |-> MoveList(m.id, m.parentId, NoId, NoId)]

\* faulty variant: the node is taken from the id index as it was when walk was called
CurrentTreeNodeAtStart(id) ==
    IF id \in IdsOf(call.old) THEN <<BuildNodeCache(call.old)[id]>> ELSE <<>>

\* this._nodeCache.get(_id) at the time _walk(_id) is called
CurrentTreeNode(id) == GetById(id)

\* with one call of the visitor in between, a recursion deeper than twice the
\* number of ids is in a cycle of the children index and has no end
WalkDepth == 2 * Cardinality(Ids)

\* the lists with distinct ids and without a cycle whose nodes are CallNodes
CallTreeLists == {l \in TreeLists : \A i \in 1..Len(l) : l[i] \in CallNode}

InitWalking == \E l \in CallTreeLists : Constructed(l)

\* walk(startId, tap) with the visitor that calls done() at doneAt and calls m
\* the first time it is handed the node with the id `at`
StartWalk ==
    /\ call = NoCall
    /\ \E startId \in CallIds, doneAt \in MaybeCallIds, at \in CallIds, m \in Mutations :
        /\ ret' = [op |-> "walk", err |-> "none", val |-> <<>>]
        /\ call' = [op |-> "walking", old |-> list,
                    args |-> [startId |-> startId, doneAt |-> doneAt, at |-> at, m |-> m],
                    pending |-> IF startId \in DOMAIN nodeCache
                                THEN <<[id |-> startId, lastTrace |-> <<>>]>> ELSE <<>>,
                    calledAt |-> 0,
                    held |-> list]
        /\ Unchanged

WalkStep ==
    /\ call.op = "walking"
    /\ call.pending # <<>>
    /\ LET item == Head(call.pending)
           current == CurrentTreeNode(item.id)
       IN  IF current = <<>>
           THEN /\ call' = [call EXCEPT !.pending = Tail(call.pending)]
                /\ UNCHANGED <<list, nodeCache, childrenCache, ret>>
           ELSE IF Len(item.lastTrace) >= WalkDepth
           THEN /\ call' = [call EXCEPT !.pending = <<>>]
                /\ ret' = [ret EXCEPT !.err = "stack overflow"]
                /\ Unchanged
           ELSE LET currentTreeNode == current[1]
                    shouldStop == (item.id = call.args.doneAt)
                    trace == Append(item.lastTrace, currentTreeNode)
                    childrenNodes == IF item.id \in DOMAIN childrenCache
                                     THEN childrenCache[item.id] ELSE <<>>
                    isLeaf == Len(childrenNodes) = 0
                    tap == [node |-> currentTreeNode, trace |-> trace, isLeaf |-> isLeaf]
                    calls == (item.id = call.args.at /\ call.calledAt = 0)
                    called == IF calls THEN Reentered(call.args.m)
                              ELSE [err |-> "none", list |-> list]
                    children == [k \in 1..Len(childrenNodes) |->
                                    [id |-> childrenNodes[k].id, lastTrace |-> trace]]
                IN  /\ IF calls /\ called.err = "none" THEN Rebuilt(called.list) ELSE Unchanged
                    /\ ret' = [ret EXCEPT !.err = called.err, !.val = Append(ret.val, tap)]
                    /\ call' = [call EXCEPT
                                  !.pending = IF called.err # "none" THEN <<>>
                                              ELSE IF shouldStop THEN Tail(call.pending)
                                              ELSE children \o Tail(call.pending),
                                  !.calledAt = IF calls THEN Len(ret.val) + 1 ELSE @,
                                  !.held = list]

SpecWalking == InitWalking /\ [][StartWalk \/ WalkStep]_vars

\* ---- static reduceTraceList ----
MaxTraceLen == 2

\* faulty variant: a node is skipped when the same node, not the same id, was added
RECURSIVE ReduceTraceByNode(_, _)
ReduceTraceByNode(trace, acc) ==
    IF trace = <<>> THEN acc
    ELSE LET t == Head(trace)
         IN  ReduceTraceByNode(Tail(trace),
                IF \E i \in 1..Len(acc.list) : acc.list[i] = t THEN acc
                ELSE [list |-> Append(acc.list, t), addedIdSet |-> acc.addedIdSet \cup {t.id}])

\* the inner forEach over one trace: acc is the list and the addedIdSet so far
RECURSIVE ReduceTrace(_, _)
ReduceTrace(trace, acc) ==
    IF trace = <<>> THEN acc
    ELSE LET t == Head(trace)
         IN  ReduceTrace(Tail(trace),
                IF t.id \in acc.addedIdSet THEN acc
                ELSE [list |-> Append(acc.list, t), addedIdSet |-> acc.addedIdSet \cup {t.id}])

\* the outer forEach over the traces
RECURSIVE ReduceTraces(_, _)
ReduceTraces(traceList, acc) ==
    IF traceList = <<>> THEN acc
    ELSE ReduceTraces(Tail(traceList), ReduceTrace(Head(traceList), acc))

ReduceTraceList(traceList) == ReduceTraces(traceList, [list |-> <<>>, addedIdSet |-> {}]).list

\* the traces handed in: nodes of three ids, two nodes for each id
TraceNodes == {n \in CallNode : n.parentId \in {NoId, "a"}}
Traces == SeqsUpTo(TraceNodes, MaxTraceLen)
TraceLists == {<<>>} \cup {<<t>> : t \in Traces} \cup {<<t, u>> : t \in Traces, u \in Traces}

\* the helpers that exist while the static function is called
InitReduce == \E l \in {<<>>} \cup {<<n>> : n \in TraceNodes} : Constructed(l)

OneReduceTraceList ==
    /\ call = NoCall
    /\ \E traceList \in TraceLists :
        /\ Returned("reduceTraceList", "none", ReduceTraceList(traceList)) /\ Unchanged
        /\ Noted("reduceTraceList", [traceList |-> traceList])

SpecReduce == InitReduce /\ [][OneReduceTraceList]_vars

\* ---- the caller of one query ----
OneFindAllParent ==
    /\ call = NoCall
    /\ \E startId \in Ids :
        /\ FindAllParent(startId)
        /\ Noted("findAllParent", [startId |-> startId])

OneFindAllRoot ==
    /\ call = NoCall
    /\ FindAllRoot
    /\ Noted("findAllRoot", <<>>)

OneIsLeaf ==
    /\ call = NoCall
    /\ \E id \in Ids :
        /\ Returned("isLeaf", "none", IsLeaf(id)) /\ Unchanged
        /\ Noted("isLeaf", [id |-> id])

OneGetById ==
    /\ call = NoCall
    /\ \E id \in Ids :
        /\ Returned("getById", "none", GetById(id)) /\ Unchanged
        /\ Noted("getById", [id |-> id])

OneGetFlatChildren ==
    /\ call = NoCall
    /\ \E id \in Ids :
        /\ Returned("getFlatChildren", "none", GetFlatChildren(id)) /\ Unchanged
        /\ Noted("getFlatChildren", [id |-> id])

\* buildCache() called from outside, the list being what it was at the last build
OneBuildCache ==
    /\ call = NoCall
    /\ Rebuilt(list)
    /\ Returned("buildCache", "none", <<>>)
    /\ Noted("buildCache", [nodeCache |-> nodeCache, childrenCache |-> childrenCache])

NextQuery ==
    \/ OneFindAllParent \/ OneFindAllRoot \/ OneIsLeaf \/ OneGetById
    \/ OneGetFlatChildren \/ OneWalk \/ OneRemove \/ OneBuildCache

SpecQuery == Init /\ [][NextQuery]_vars

\* ======================= the claims =======================
Mutated == call.op \in {"add", "remove", "move"} /\ ret.err = "none"

\* the list before the last call (the constructed list when there was none)
Old == IF call = NoCall THEN list ELSE call.old

\* C1: after construction and after every completed add, remove or move, for
\* every id X of a node of the list, getFlatChildren(X) is the subsequence of
\* the list whose parentId equals X, in list order.
C1_IndexConsistency ==
    \A X \in IdsOf(list) :
        GetFlatChildren(X) = SelectSeq(list, LAMBDA n : n.parentId = X)

\* a mutation changed the children of a node that has children afterwards
C1_Witness ==
    /\ Mutated
    /\ list # call.old
    /\ \E X \in IdsOf(list) \cap IdsOf(call.old) :
          /\ Len(GetFlatChildren(X)) >= 2
          /\ GetFlatChildren(X) # ChildrenOf(call.old, X)

\* C2: from a list of pairwise distinct ids, the ids of the list stay
\* pairwise distinct after add, remove and move, whether they succeed or fail.
C2_IdsStayUnique == UniqueIds(Old) => UniqueIds(list)

\* the ids of the transitive descendants of x in l (ids unique): the ids whose
\* parent chain reaches x
Descendants(l, x) ==
    {id \in IdsOf(l) : \E n \in 1..Len(l) : Ancestor(l, id, n) = x}

\* C3: when the visitor calls done() at a node, the walk ends: the visitor is
\* not invoked again, neither for descendants of the node nor for later
\* siblings of it or of its ancestors.
C3_DoneEndsWalk ==
    (call.op = "walk" /\ ret.err = "none") =>
        \A k \in 1..Len(ret.val) :
            ret.val[k].node.id = call.args.doneAt => k = Len(ret.val)

\* C4: on a list of unique ids with an acyclic parent relation, remove(x) of a
\* node x leaves the list without exactly x and its transitive descendants,
\* the rest in its order; no remaining node has x or a descendant as parentId.
C4_CascadeRemoval ==
    (/\ call.op = "remove" /\ ret.err = "none"
     /\ UniqueIds(call.old) /\ Acyclic(call.old)
     /\ call.args.startId \in IdsOf(call.old)) =>
        LET gone == {call.args.startId} \cup Descendants(call.old, call.args.startId)
        IN  /\ list = SelectSeq(call.old, LAMBDA n : n.id \notin gone)
            /\ \A i \in 1..Len(list) : list[i].parentId \notin gone

\* a node with a grandchild was removed from between two nodes that stay
C4_Witness ==
    /\ call.op = "remove" /\ ret.err = "none"
    /\ call.args.startId \in IdsOf(call.old)
    /\ \E id \in IdsOf(call.old) : Ancestor(call.old, id, 2) = call.args.startId
    /\ Len(list) = 1 /\ Len(call.old) = 4
    /\ list[1] = call.old[2]

\* C5: add with a supplied id that is already in the list fails, and the list
\* and both indices are as before the call.
C5_AddAllOrNothing ==
    (/\ call.op = "add"
     /\ \E i \in 1..Len(call.args.nodes) : call.args.nodes[i].id \in IdsOf(call.old)) =>
        /\ ret.err = "id has existed"
        /\ list = call.old
        /\ nodeCache = BuildNodeCache(call.old)
        /\ childrenCache = BuildChildrenCache(call.old)

\* a rejected batch whose first node is new and whose second is not
C5_Witness ==
    /\ call.op = "add" /\ ret.err = "id has existed"
    /\ Len(call.args.nodes) = 2 /\ Len(call.old) >= 1
    /\ call.args.nodes[1].id \notin IdsOf(call.old)
    /\ call.args.nodes[2].id \in IdsOf(call.old)

\* C6: move with both before and after, or with an id that is not in the
\* list, fails, and the list and both indices are as before the call.
C6_MoveRejectsUnchanged ==
    (/\ call.op = "move"
     /\ \/ call.args.opt.before # NoId /\ call.args.opt.after # NoId
        \/ call.args.id \notin IdsOf(call.old)) =>
        /\ ret.err # "none"
        /\ list = call.old
        /\ nodeCache = BuildNodeCache(call.old)
        /\ childrenCache = BuildChildrenCache(call.old)

\* both hints given for a node of the list that would get another parent
C6_Witness ==
    /\ call.op = "move" /\ ret.err = "before and after"
    /\ call.args.opt.before # NoId /\ call.args.opt.after # NoId
    /\ \E i \in 1..Len(call.old) :
          call.old[i].id = call.args.id /\ call.old[i].parentId # call.args.parentId
    /\ \E X \in IdsOf(list) : Len(GetFlatChildren(X)) >= 1

\* the moved node as move builds it: { ...this._list[targetIndex], parentId }
MovedNode == [call.old[FindIndex(call.old, call.args.id) + 1] EXCEPT !.parentId = call.args.parentId]
\* the list before the call without the target
OldRest == SpliceOut(call.old, FindIndex(call.old, call.args.id))

\* C7: after a successful move(id, p, {before: b}) the moved node, with
\* parentId p, is immediately before the node holding b, after one with
\* {after: a} immediately after the node holding a, and the other nodes keep
\* their order; siblings [A,B,C] under p become [C,A,B] by move(C, p, {before: A}).
C7_MoveWithHint ==
    (call.op = "move" /\ ret.err = "none") =>
        /\ (/\ call.args.opt.before # NoId
            /\ call.args.opt.before \in IdsOf(OldRest)) =>
              \E i \in 1..(Len(list) - 1) :
                  /\ list[i] = MovedNode
                  /\ list[i + 1].id = call.args.opt.before
                  /\ SpliceOut(list, i - 1) = OldRest
        /\ (/\ call.args.opt.after # NoId
            /\ call.args.opt.after \in IdsOf(OldRest)) =>
              \E i \in 2..Len(list) :
                  /\ list[i] = MovedNode
                  /\ list[i - 1].id = call.args.opt.after
                  /\ SpliceOut(list, i - 1) = OldRest
        /\ LET siblings == SelectSeq(call.old, LAMBDA n : n.parentId = call.args.parentId)
           IN  (/\ call.args.parentId # NoId
                /\ UniqueIds(call.old) /\ Len(siblings) = 3
                /\ siblings[3].id = call.args.id
                /\ siblings[1].id = call.args.opt.before) =>
                   SelectSeq(list, LAMBDA n : n.parentId = call.args.parentId)
                       = <<siblings[3], siblings[1], siblings[2]>>

\* siblings [A,B,C] under a parent of the list, and move(C, parent, {before: A})
C7_Witness ==
    /\ call.op = "move" /\ ret.err = "none"
    /\ call.args.parentId \in IdsOf(call.old)
    /\ LET siblings == SelectSeq(call.old, LAMBDA n : n.parentId = call.args.parentId)
       IN  /\ UniqueIds(call.old) /\ Len(siblings) = 3
           /\ siblings[3].id = call.args.id
           /\ siblings[1].id = call.args.opt.before
           /\ GetFlatChildren(call.args.parentId) = <<siblings[3], siblings[1], siblings[2]>>

\* C8: after a successful move(id, p) without hints the list has the same
\* length and the same id at every position, the target has parentId p, and
\* every other node is unchanged.
C8_MoveInPlace ==
    (/\ call.op = "move" /\ ret.err = "none"
     /\ call.args.opt.before = NoId /\ call.args.opt.after = NoId) =>
        /\ Len(list) = Len(call.old)
        /\ \A i \in 1..Len(list) :
              /\ list[i].id = call.old[i].id
              /\ IF i = FindIndex(call.old, call.args.id) + 1
                 THEN list[i].parentId = call.args.parentId
                 ELSE list[i] = call.old[i]

\* a node in the middle of the list got another parent
C8_Witness ==
    /\ call.op = "move" /\ ret.err = "none"
    /\ call.args.opt.before = NoId /\ call.args.opt.after = NoId
    /\ Len(list) = 3 /\ list[2].id = call.args.id
    /\ list[2].parentId # call.old[2].parentId
    /\ call.args.parentId # NoId

\* the nodes of the list
NodesOf(l) == {l[i] : i \in 1..Len(l)}
\* a chain of the list from the node with id s: each node the parent of the next
IsChainFrom(t, s) ==
    /\ Len(t) >= 1
    /\ t[1].id = s
    /\ \A i \in 1..Len(t) : t[i] \in NodesOf(list)
    /\ \A i \in 1..(Len(t) - 1) : t[i + 1].parentId = t[i].id

\* C9: on a list of unique ids with an acyclic parent relation, walk(s, v) with
\* a visitor that never calls done invokes it once for s and for each
\* transitive descendant of s and for no other node, a parent before its
\* children, children in list order, depth first; the trace is the chain from
\* s to the visited node, and isLeaf says the node has no children in the index.
C9_WalkPreOrder ==
    (/\ call.op = "walk" /\ ret.err = "none" /\ call.args.doneAt = NoId
     /\ UniqueIds(list) /\ Acyclic(list)
     /\ call.args.startId \in IdsOf(list)) =>
        LET taps == ret.val
            s == call.args.startId
            at(k) == taps[k].node
            under(k) == Descendants(list, at(k).id)
        IN  /\ {at(k).id : k \in 1..Len(taps)} = {s} \cup Descendants(list, s)
            /\ Len(taps) = Cardinality({s} \cup Descendants(list, s))
            /\ at(1).id = s
            /\ \A k \in 1..Len(taps) :
                  /\ at(k) \in NodesOf(list)
                  /\ k > 1 => \E j \in 1..(k - 1) : at(j).id = at(k).parentId
                  /\ \A j \in 1..(k - 1) :
                        (j > 1 /\ at(j).parentId = at(k).parentId) =>
                            FindIndex(list, at(j).id) < FindIndex(list, at(k).id)
                  /\ \A m \in (k + 1)..Len(taps) :
                        at(m).id \in under(k) =>
                            \A j \in (k + 1)..m : at(j).id \in under(k)
                  /\ IsChainFrom(taps[k].trace, s)
                  /\ taps[k].trace[Len(taps[k].trace)] = at(k)
                  /\ taps[k].isLeaf <=> (GetFlatChildren(at(k).id) = <<>>)

\* the four nodes a, b, c, d with a > [b > d, c]: depth first visits a, b, d, c
C9_Witness ==
    /\ call.op = "walk" /\ ret.err = "none" /\ call.args.doneAt = NoId
    /\ Len(ret.val) = 4
    /\ ret.val[2].node.parentId = ret.val[1].node.id
    /\ ret.val[3].node.parentId = ret.val[2].node.id
    /\ ret.val[4].node.parentId = ret.val[1].node.id
    /\ Len(ret.val[3].trace) = 3
    /\ ret.val[3].isLeaf /\ ~ret.val[2].isLeaf

\* the first position at which two traces differ
FirstDiff(t, u) ==
    CHOOSE j \in 1..Len(t) :
        /\ j <= Len(u) => t[j] # u[j]
        /\ \A i \in 1..(j - 1) : i <= Len(u) /\ t[i] = u[i]

ChainList ==
    << [id |-> "a", parentId |-> NoId], [id |-> "b", parentId |-> "a"],
       [id |-> "c", parentId |-> "b"], [id |-> "d", parentId |-> "c"] >>

\* C10: getAllTraceList(s) returns one trace per leaf reachable from s, in the
\* depth-first order of the leaves; each trace starts with s, ends with its
\* leaf, and goes from parent to child.  For the chain a > b > c > d it
\* returns the one trace [a, b, c, d].
C10_AllTraces ==
    (call.op = "getAllTraceList" /\ ret.err = "none") =>
        LET traces == ret.val
            s == call.args.startId
            reach == IF s \in IdsOf(list) THEN {s} \cup Descendants(list, s) ELSE {}
            leaves == {id \in reach : \A i \in 1..Len(list) : list[i].parentId # id}
            last(t) == t[Len(t)]
        IN  /\ Len(traces) = Cardinality(leaves)
            /\ {last(traces[k]).id : k \in 1..Len(traces)} = leaves
            /\ \A k \in 1..Len(traces) : IsChainFrom(traces[k], s)
            /\ \A k, m \in 1..Len(traces) :
                  k < m =>
                      LET j == FirstDiff(traces[k], traces[m])
                      IN  /\ j <= Len(traces[m])
                          /\ FindIndex(list, traces[k][j].id) < FindIndex(list, traces[m][j].id)
            /\ (list = ChainList /\ s = "a") => traces = <<ChainList>>

\* the chain a > b > c > d and its one trace
C10_Witness ==
    /\ call.op = "getAllTraceList" /\ ret.err = "none"
    /\ list = ChainList /\ call.args.startId = "a"
    /\ ret.val = <<ChainList>>

\* a tree with two leaves at different depths
C10_WitnessTwoLeaves ==
    /\ call.op = "getAllTraceList" /\ ret.err = "none"
    /\ Len(ret.val) = 2
    /\ Len(ret.val[1]) = 3 /\ Len(ret.val[2]) = 2

\* every parent chain of the id index ends: no id is reached from itself
IndexAcyclic == \A id \in DOMAIN nodeCache : ~FindAllParentLoops(id)

\* C11: on a list with an acyclic parent relation findAllParent(id) returns the
\* chain of ancestors of id found by following parentId through the id index
\* up to a node whose parentId is absent or resolves to no node, from the
\* topmost one to the immediate parent, without the start node; it is empty
\* when id is not in the list or its node has no resolvable parent.
C11_FindAllParent ==
    (call.op = "findAllParent" /\ IndexAcyclic) =>
        LET s == call.args.startId
            parents == ret.val
            chain == IF s \in IdsOf(list) THEN Append(parents, nodeCache[s]) ELSE parents
        IN  /\ ret.err = "none"
            /\ s \notin IdsOf(list) => parents = <<>>
            /\ \A i \in 1..Len(chain) :
                  /\ chain[i] \in NodesOf(list)
                  /\ GetById(chain[i].id) = <<chain[i]>>
                  /\ i < Len(chain) => chain[i + 1].parentId = chain[i].id
            /\ chain # <<>> =>
                  \/ chain[1].parentId = NoId
                  \/ chain[1].parentId \notin IdsOf(list)
            /\ \A i \in 1..Len(parents) : parents[i].id # s

\* the chain of three nodes, asked for the ancestors of the lowest one
C11_Witness ==
    /\ call.op = "findAllParent" /\ ret.err = "none"
    /\ Len(ret.val) = 2
    /\ UniqueIds(list)
    /\ ret.val[1].parentId = NoId
    /\ ret.val[2].parentId = ret.val[1].id

\* the positions of a sequence of nodes that hold an id for the first time
FirstPositions(flat) == {i \in 1..Len(flat) : \A j \in 1..(i - 1) : flat[j].id # flat[i].id}

\* C12: reduceTraceList returns the concatenation of the traces without every
\* node whose id was already emitted: each id of the input occurs once, at the
\* place of its first occurrence (<<n1, n2>>, <<n2, n3>> gives n1, n2, n3); no
\* helper's list or index is read or changed.
C12_ReduceTraceList ==
    call.op = "reduceTraceList" =>
        LET traceList == call.args.traceList
            flat == Flatten(traceList)
            first == FirstPositions(flat)
            kth(k) == CHOOSE i \in first : Cardinality({j \in first : j < i}) = k - 1
        IN  /\ ret.err = "none"
            /\ Len(ret.val) = Cardinality(first)
            /\ \A k \in 1..Len(ret.val) : ret.val[k] = flat[kth(k)]
            /\ IdsOf(ret.val) = IdsOf(flat)
            /\ UniqueIds(ret.val)
            /\ (/\ Len(traceList) = 2
                /\ Len(traceList[1]) = 2 /\ Len(traceList[2]) = 2
                /\ traceList[1][2] = traceList[2][1]
                /\ UniqueIds(<<traceList[1][1], traceList[1][2], traceList[2][2]>>))
               => ret.val = <<traceList[1][1], traceList[1][2], traceList[2][2]>>
            /\ list = call.old
            /\ nodeCache = BuildNodeCache(call.old)
            /\ childrenCache = BuildChildrenCache(call.old)

\* two traces that share an id held by different nodes, beside a helper with a node
C12_Witness ==
    /\ call.op = "reduceTraceList"
    /\ list # <<>>
    /\ Len(call.args.traceList) = 2
    /\ Len(call.args.traceList[1]) = 2 /\ Len(call.args.traceList[2]) = 2
    /\ call.args.traceList[1][2].id = call.args.traceList[2][1].id
    /\ call.args.traceList[1][2] # call.args.traceList[2][1]
    /\ Len(ret.val) = 3

\* C13: after construction and after every completed add, remove or move,
\* getById(id) returns a node exactly when the list holds a node with that id,
\* and the node returned is one the list holds now under that id; after a move
\* of an id the list holds once it is the copy with the new parentId.
C13_IdIndexExact ==
    /\ \A id \in Ids :
          /\ GetById(id) # <<>> <=> id \in IdsOf(list)
          /\ GetById(id) # <<>> =>
                \E i \in 1..Len(list) : list[i] = GetById(id)[1] /\ list[i].id = id
    /\ (call.op = "move" /\ ret.err = "none" /\ UniqueIds(list)) =>
          GetById(call.args.id) = <<MovedNode>>

\* a node was moved under another parent and is asked for by its id
C13_Witness ==
    /\ call.op = "move" /\ ret.err = "none" /\ UniqueIds(list)
    /\ Len(list) = 3
    /\ call.args.parentId # NoId
    /\ call.old[FindIndex(call.old, call.args.id) + 1].parentId # call.args.parentId
    /\ GetById(call.args.id)[1].parentId = call.args.parentId

\* C14: a successful add leaves the nodes that were in the list where they
\* were, as the first part of the new list, and puts the supplied nodes behind
\* them in the order they were supplied.
C14_AddAppends ==
    (call.op = "add" /\ ret.err = "none") =>
        LET nodes == call.args.nodes
        IN  /\ Len(list) = Len(call.old) + Len(nodes)
            /\ \A i \in 1..Len(call.old) : list[i] = call.old[i]
            /\ \A j \in 1..Len(nodes) : list[Len(call.old) + j] = nodes[j]

\* two different nodes were added to a list that held one
C14_Witness ==
    /\ call.op = "add" /\ ret.err = "none"
    /\ Len(call.old) = 1 /\ Len(call.args.nodes) = 2
    /\ call.args.nodes[1].id # call.args.nodes[2].id
    /\ list = <<call.old[1], call.args.nodes[1], call.args.nodes[2]>>

\* C15: for an id that no node of the list holds, walk never invokes the
\* visitor, remove leaves the list and both indices as they were, getById
\* returns undefined, getFlatChildren and findAllParent return the empty list
\* and isLeaf returns true; none of them throws.
C15_AbsentIdBenign ==
    LET absent(id) == id \notin IdsOf(call.old)
        same == /\ list = call.old
                /\ nodeCache = BuildNodeCache(call.old)
                /\ childrenCache = BuildChildrenCache(call.old)
    IN  /\ (call.op \in {"walk", "remove", "findAllParent"} /\ absent(call.args.startId)) =>
              ret.err = "none" /\ ret.val = <<>> /\ same
        /\ (call.op \in {"getById", "getFlatChildren"} /\ absent(call.args.id)) =>
              ret.err = "none" /\ ret.val = <<>> /\ same
        /\ (call.op = "isLeaf" /\ absent(call.args.id)) =>
              ret.err = "none" /\ ret.val = TRUE /\ same

\* isLeaf was asked for an id that only occurs as the parentId of a node
C15_Witness ==
    /\ call.op = "isLeaf" /\ ret.val = TRUE
    /\ call.args.id \notin IdsOf(list)
    /\ \E i \in 1..Len(list) : list[i].parentId = call.args.id

\* a node whose parentId is given and is the id of no node of the list
Dangling(n) == n.parentId # NoId /\ n.parentId \notin IdsOf(list)

\* the positions of the list whose node has no parentId
RootPositions == {i \in 1..Len(list) : list[i].parentId = NoId}

\* C16: a node whose parentId is given but is the id of no node, made by add or
\* by a move under such a parent, stays in the list; findAllRoot returns, in
\* list order, exactly the nodes without parentId, so not that node; and a walk
\* from a node that findAllRoot returns visits neither it nor its descendants.
C16_DanglingParents ==
    LET roots == FindAllRootList
        kth(k) == CHOOSE i \in RootPositions : Cardinality({j \in RootPositions : j < i}) = k - 1
    IN  /\ (call.op = "add" /\ ret.err = "none") =>
              \A j \in 1..Len(call.args.nodes) : call.args.nodes[j] \in NodesOf(list)
        /\ (call.op = "move" /\ ret.err = "none") => MovedNode \in NodesOf(list)
        /\ Len(roots) = Cardinality(RootPositions)
        /\ \A k \in 1..Len(roots) : roots[k] = list[kth(k)]
        /\ \A i \in 1..Len(list) : Dangling(list[i]) => list[i] \notin NodesOf(roots)
        /\ \A k \in 1..Len(roots) :
              /\ ~WalkOverflows(roots[k].id, NoId)
              /\ \A v \in 1..Len(WalkTaps(roots[k].id, NoId)), i \in 1..Len(list) :
                    Dangling(list[i]) =>
                        LET visited == WalkTaps(roots[k].id, NoId)[v].node
                        IN  /\ visited # list[i]
                            /\ visited.id \notin Descendants(list, list[i].id)

\* the child of a root, itself with a child, was moved under a parent that is
\* no node: the walk from the root visits the root alone
C16_Witness ==
    /\ call.op = "move" /\ ret.err = "none"
    /\ call.args.parentId # NoId /\ call.args.parentId \notin IdsOf(list)
    /\ Dangling(MovedNode)
    /\ Descendants(list, call.args.id) # {}
    /\ Len(FindAllRootList) = 1
    /\ call.old[FindIndex(call.old, call.args.id) + 1].parentId = FindAllRootList[1].id
    /\ Len(WalkTaps(FindAllRootList[1].id, NoId)) = 1

C18_MoveMakesCycles ==
    (call.op = "move" /\ call.args.id \in IdsOf(call.old)) =>
        /\ ret.err = "none"
        /\ (\/ call.args.parentId = call.args.id
            \/ call.args.parentId \in Descendants(call.old, call.args.id)) =>
              /\ ~Acyclic(list)
              /\ WalkOverflows(call.args.id, NoId)
              /\ FindAllParentLoops(call.args.id)

\* the root of a chain of three was moved under the lowest node of the chain
C18_Witness ==
    /\ call.op = "move" /\ ret.err = "none"
    /\ Acyclic(call.old)
    /\ call.old[FindIndex(call.old, call.args.id) + 1].parentId = NoId
    /\ call.args.parentId # call.args.id
    /\ call.args.parentId \in Descendants(call.old, call.args.id)
    /\ \E x \in Descendants(call.old, call.args.id) :
          call.args.parentId \in Descendants(call.old, x)
    /\ ~Acyclic(list)

\* how many positions of l hold the id x
Count(l, x) == Cardinality({i \in 1..Len(l) : l[i].id = x})

\* C19: a successful move neither gains nor loses a node, whatever the hints
\* are (a hint that no node holds, a hint equal to the moved id): the list has
\* the length it had and every id as often as before, the moved id once, and
\* the other nodes are unchanged and in the order they were in.
C19_MoveKeepsNodes ==
    (call.op = "move" /\ ret.err = "none") =>
        /\ Len(list) = Len(call.old)
        /\ \A x \in Ids : Count(list, x) = Count(call.old, x)
        /\ Count(list, call.args.id) = 1
        /\ \E i \in 1..Len(list) :
              /\ list[i] = MovedNode
              /\ SpliceOut(list, i - 1) = OldRest

\* the last of three nodes was moved with its own id as the before hint and
\* is now the second
C19_Witness ==
    /\ call.op = "move" /\ ret.err = "none"
    /\ call.args.opt.before = call.args.id
    /\ Len(call.old) = 3 /\ call.old[3].id = call.args.id
    /\ list[2] = MovedNode
    /\ list[3] = call.old[2]

\* C20: when the visitor calls add, remove or move on the helper during a
\* walk, every node handed to the visitor afterwards is, when it is handed,
\* the node that the list holds under its id; a node the visitor removed
\* before its turn is not visited.
C20_ReentrantWalk ==
    (call.op = "walking" /\ ret.val # <<>>) =>
        LET handed == ret.val[Len(ret.val)].node
        IN  /\ \E i \in 1..Len(call.held) : call.held[i] = handed
            /\ \A i \in 1..Len(call.held) : call.held[i].id = handed.id => call.held[i] = handed
            /\ (call.calledAt > 0 /\ ret.err = "none") =>
                  \A k \in (call.calledAt + 1)..Len(ret.val) : ret.val[k].node.id \in IdsOf(list)

\* the visitor, handed the first child of the start node, removed the second
\* child; the walk ended without a visit of it
C20_Witness ==
    /\ call.op = "walking" /\ call.pending = <<>> /\ ret.err = "none"
    /\ call.args.m.op = "remove"
    /\ call.calledAt = 2 /\ Len(ret.val) = 2
    /\ Len(call.old) = 3 /\ Len(list) = 2
    /\ call.args.m.id \in IdsOf(call.old)
    /\ call.old[FindIndex(call.old, call.args.m.id) + 1].parentId = call.args.startId
    /\ \A k \in 1..Len(ret.val) : ret.val[k].node.id # call.args.m.id

====
